---- MODULE Spec2Model ----
(***************************************************************************)
(* dblfinder 0.4.3 (src/main.go, lines 246-603): the duplicate-detection   *)
(* pipeline.  The specifications share the variables below:                *)
(*   SpecScan    main up to line 318, getAllFilesizes with the visits of   *)
(*               filepath.Walk, filterSameSizeFiles;                       *)
(*   SpecHash    filterSameHashFiles / getUniqueHashes / hashWorker /      *)
(*               getHashResults: the concurrent fingerprinting of the size *)
(*               buckets;                                                  *)
(*   SpecOrder   the same on one bucket listed in any order;               *)
(*   SpecSample  the same on one bucket of files of any size, on a file    *)
(*               system that does not fail;                                *)
(*   SpecLive    the same on the buckets of SpecHash, the goroutines       *)
(*               being scheduled fairly;                                   *)
(*   SpecV2      release 0.2.0 (src/unnamed/part_002), which has the       *)
(*               --limit option and the error results of the workers;      *)
(*   SpecFix     main's dispatch on fix, cleanUp / readInt /               *)
(*               deleteOtherFiles / listAll: the resolution of the         *)
(*               duplicate sets;                                           *)
(*   SpecParse   one line typed at the prompt, as readInt scans it and as  *)
(*               parseRead (tested in src/main_test.go) reads it.          *)
(* From the hashing on a path is a number of 1..NumPaths, its rank in      *)
(* lexical order; in the scan it is the string of its bytes.               *)
(***************************************************************************)
EXTENDS Integers, Sequences, FiniteSets, TLC

\* ------------------------------------------------------------------ bounds
NumPaths == 4
MaxSetLen == 3
MaxSets == 2
MaxInputs == 2
MaxBucketLen == 3
MaxBuckets == 2
MaxLimit == 2
NumContents == 2
MaxTokens == 2
MaxSize == 2

Paths == 1..NumPaths

\* what the first 1024 bytes of a file can be
Contents == 1..NumContents

\* a *regexp.Regexp: nil, or a compiled pattern, modelled by the set of the
\* paths it matches
NilRegexp == [nil |-> TRUE, matches |-> {}]

VARIABLES
    \* configuration, as returned by getFlags
    fix, preferRegexp, skipManual, dryRun, fsLimit,
    \* the file system: the paths that exist, the first 1024 bytes of each,
    \* its size in bytes and what follows its first 1024 bytes
    exists, head, fsize, tail,
    \* main goroutine: its place in the code
    pc,
    \* filterSameHashFiles
    sameSizeFiles, cur, count, sameHashFiles,
    \* getUniqueHashes: the launching loop's index, and for each call (one per
    \* bucket) the counter of its WaitGroup
    i, wg,
    \* the hashWorker goroutines, one per path: its place in the code and the
    \* number of results it has sent on md5s
    wpc, sent,
    \* getHashResults
    received, uniqueHashes,
    \* the paths whose open or read failed
    ioFailed,
    \* cleanUp / listAll / deleteOtherFiles locals
    idx, keep, delFiles, delIdx,
    \* the console and the calls made to the operating system, per set
    listed, prompts, returned, announced, report, removeCalls,
    \* getAllFilesizes: the tree under the root and the sizes of its files,
    \* the place of filepath.Walk in it, the map being built, the error Walk
    \* returns and the entries on which Walk met an error
    tree, sizes, walkTodo, filesizes, walkErr, walkFaults,
    \* filterSameSizeFiles: the map and the count it returns
    sameSizeMap, sizeCount,
    \* the selection prompt: the line typed and the number of members shown,
    \* its place, what parseRead makes of the line, what readInt makes of it
    line, lineMax, ppc, got, turn,
    \* release 0.2.0 (src/unnamed/part_002): the --limit option, and the
    \* paths for which getHashResults received an error
    limit, errs

fileVars == <<fsize, tail>>

scanVars == <<tree, sizes, walkTodo, filesizes, walkErr, walkFaults, sameSizeMap,
              sizeCount>>

parseVars == <<line, lineMax, ppc, got, turn>>

v2Vars == <<limit, errs>>

hashVars == <<fsLimit, head, sameSizeFiles, cur, count, i, wg, wpc, sent,
              received, uniqueHashes, ioFailed>>

vars == <<fix, preferRegexp, skipManual, dryRun, exists, pc, sameHashFiles,
          idx, keep, delFiles, delIdx, listed, prompts, returned, announced, report,
          removeCalls, hashVars, fileVars, scanVars, parseVars, v2Vars>>

\* ----------------------------------------------------------------- helpers
Range(s) == {s[k] : k \in DOMAIN s}

RECURSIVE SumTo(_, _)
SumTo(lens, n) == IF n = 0 THEN 0 ELSE lens[n] + SumTo(lens, n - 1)

\* the lists of at most maxN runs of 2..maxLen paths each, the k-th run
\* holding the next lens[k] paths: no path is twice in a run or in two runs
RunLens(maxLen, maxN) ==
    {lens \in UNION {[1..n -> 2..maxLen] : n \in 1..maxN} :
        SumTo(lens, Len(lens)) <= NumPaths}

RunLists(maxLen, maxN) ==
    {[k \in DOMAIN lens |-> [p \in 1..lens[k] |-> SumTo(lens, k - 1) + p]] :
        lens \in RunLens(maxLen, maxN)}

\* the lists of duplicate sets cleanUp and listAll are given.  Both treat
\* paths alike, so the lists are taken up to a renaming of the paths
DupSetLists == RunLists(MaxSetLen, MaxSets)

\* the size buckets filterSameHashFiles is given, in the order its range
\* visits them: 2 or more paths each, in the order of the walk
BucketLists == RunLists(MaxBucketLen, MaxBuckets)

\* the orders in which a range over a map can visit the keys S
Orders(S) ==
    {s \in [1..Cardinality(S) -> S] : \A a, b \in DOMAIN s : a # b => s[a] # s[b]}

Regexps == {[nil |-> FALSE, matches |-> m] : m \in SUBSET Paths}
MatchString(re, file) == file \in re.matches

\* ------------------------------------------------------- cleanUp, the scan
\* a variant of PreferLoop that takes the 0-based key for the index
RECURSIVE PreferLoopZeroBased(_, _, _, _)
PreferLoopZeroBased(re, files, key, k) ==
    IF key >= Len(files) THEN k
    ELSE LET file == files[key + 1] IN
         IF re.nil \/ k < 0 \/ ~MatchString(re, file)
         THEN PreferLoopZeroBased(re, files, key + 1, k)
         ELSE IF k > 0
              THEN PreferLoopZeroBased(re, files, key + 1, -1)
              ELSE PreferLoopZeroBased(re, files, key + 1, key)

\* a variant of PreferLoop that stays with the first preferred file
RECURSIVE PreferLoopFirst(_, _, _, _)
PreferLoopFirst(re, files, key, k) ==
    IF key >= Len(files) THEN k
    ELSE LET file == files[key + 1] IN
         IF re.nil \/ k < 0 \/ ~MatchString(re, file)
         THEN PreferLoopFirst(re, files, key + 1, k)
         ELSE IF k > 0
              THEN PreferLoopFirst(re, files, key + 1, k)
              ELSE PreferLoopFirst(re, files, key + 1, key + 1)

\* lines 513-528: the loop over one set that looks for the preferred file;
\* key is 0-based as in the code
RECURSIVE PreferLoop(_, _, _, _)
PreferLoop(re, files, key, k) ==
    IF key >= Len(files) THEN k
    ELSE LET file == files[key + 1] IN
         IF re.nil \/ k < 0 \/ ~MatchString(re, file)
         THEN PreferLoop(re, files, key + 1, k)
         ELSE IF k > 0
              THEN PreferLoop(re, files, key + 1, -1)
              ELSE PreferLoop(re, files, key + 1, key + 1)

\* a variant of SkipsManual that skips only after several preferred files
SkipsManualOnlyNegative(k, skip) == k < 0 /\ skip

\* a variant of NeedsInput that asks although the first file is preferred
NeedsInputOffByOne(k, n) == k <= 1 \/ k > n

\* line 530: the set is skipped without asking
SkipsManual(k, skip) == k < 1 /\ skip

\* line 535: the condition of the loop around readInt
NeedsInput(k, n) == k < 1 \/ k > n

\* ------------------------------------------------------- deleteOtherFiles
\* line 574: append(files[:keep-1], files[keep:]...) copies files[keep:] down
\* by one place inside the backing array of files (the capacity suffices);
\* this is the backing array afterwards
AppendInPlace(files, k) ==
    [p \in 1..Len(files) |->
        IF p < k THEN files[p]
        ELSE IF p < Len(files) THEN files[p + 1]
        ELSE files[p]]

\* a variant of DelFiles that ranges over the whole backing array
DelFilesBacking(files, k) == AppendInPlace(files, k)

\* a variant of DelFiles that appends files[keep:] to files[:keep]
DelFilesAll(files, k) == files

\* line 574: delFiles is the first len(files)-1 places of that array
DelFiles(files, k) == SubSeq(AppendInPlace(files, k), 1, Len(files) - 1)

\* ------------------------------------------------------------ readInt
\* what one fmt.Scanf("%d", &i) can yield: an error (an empty line, a line
\* that is no number) or an integer
ScanErr == [err |-> TRUE, i |-> 0]
ScanInputs == {ScanErr} \cup {[err |-> FALSE, i |-> v] : v \in -1..(MaxSetLen + 1)}

\* lines 555-569, one turn of the loop on the scan result in: readInt
\* returns i (returns = TRUE), or prompts once more
ReadIntTurn(in, max) ==
    IF in.err THEN [returns |-> FALSE, i |-> 0]
    ELSE IF in.i = 0 THEN [returns |-> TRUE, i |-> 0]
    ELSE IF in.i < 1 \/ in.i > max THEN [returns |-> FALSE, i |-> in.i]
    ELSE [returns |-> TRUE, i |-> in.i]

\* the dry-run flag the specification lists among the inputs of the
\* resolution; getFlags defines no such flag and no line of the code reads it
DryRuns == BOOLEAN

\* ------------------------------------------------------------------- Init
NoLog(l) == [k \in DOMAIN l |-> <<>>]

\* the fingerprinting is over (SpecFix starts at line 328 of main)
\* no file has anything after its first 1024 bytes
NoTail == [p \in Paths |-> 0]

\* getAllFilesizes has not been called
ScanIdle ==
    /\ tree = <<>>
    /\ sizes = <<>>
    /\ walkTodo = <<>>
    /\ filesizes = <<>>
    /\ walkErr = FALSE
    /\ walkFaults = {}
    /\ sameSizeMap = <<>>
    /\ sizeCount = 0

\* release 0.4.3 has no --limit option and its workers send no error
V2Idle ==
    /\ limit = 0
    /\ errs = {}

\* no selection is being read
ParseIdle ==
    /\ line = <<>>
    /\ lineMax = 0
    /\ ppc = "idle"
    /\ got = [keep |-> <<>>, ok |-> FALSE]
    /\ turn = [returns |-> FALSE, i |-> 0]

HashIdle ==
    /\ fsLimit = 0
    /\ fsize = [p \in Paths |-> 1]
    /\ tail = NoTail
    /\ head = [p \in Paths |-> 1]
    /\ sameSizeFiles = <<>>
    /\ cur = 0
    /\ count = 0
    /\ i = 0
    /\ wg = <<>>
    /\ wpc = [p \in Paths |-> "done"]
    /\ sent = [p \in Paths |-> 0]
    /\ received = 0
    /\ uniqueHashes = <<>>
    /\ ioFailed = {}

InitFix ==
    /\ fix \in BOOLEAN
    /\ preferRegexp \in {NilRegexp} \cup Regexps
    /\ skipManual \in BOOLEAN
    /\ dryRun \in DryRuns
    /\ exists = Paths
    /\ pc = "main328"
    /\ sameHashFiles \in DupSetLists
    /\ idx = 0
    /\ keep = 0
    /\ delFiles = <<>>
    /\ delIdx = 0
    /\ listed = NoLog(sameHashFiles)
    /\ prompts = [k \in DOMAIN sameHashFiles |-> 0]
    /\ returned = NoLog(sameHashFiles)
    /\ announced = NoLog(sameHashFiles)
    /\ report = NoLog(sameHashFiles)
    /\ removeCalls = NoLog(sameHashFiles)
    /\ HashIdle
    /\ ScanIdle
    /\ ParseIdle
    /\ V2Idle

\* ----------------------------------------------------------------- actions
\* a variant of UsesCleanUp that fixes whatever the flag
UsesCleanUpAlways(f) == TRUE

\* main, lines 328-332
UsesCleanUp(f) == f

Dispatch ==
    /\ pc = "main328"
    /\ pc' = IF UsesCleanUp(fix) THEN "cleanUp" ELSE "listAll"
    /\ idx' = 1
    /\ UNCHANGED <<hashVars, fileVars, scanVars, parseVars, v2Vars>>
    /\ UNCHANGED <<fix, preferRegexp, skipManual, dryRun, exists, sameHashFiles,
                   keep, delFiles, delIdx, listed, prompts, returned, announced, report,
                   removeCalls>>

\* listAll, lines 592-602: one turn of the loop, or its end
ListAll ==
    /\ pc = "listAll"
    /\ IF idx <= Len(sameHashFiles)
       THEN /\ listed' = [listed EXCEPT ![idx] = sameHashFiles[idx]]
            /\ idx' = idx + 1
            /\ pc' = pc
       ELSE /\ pc' = "exit"
            /\ UNCHANGED <<listed, idx>>
    /\ UNCHANGED <<hashVars, fileVars, scanVars, parseVars, v2Vars>>
    /\ UNCHANGED <<fix, preferRegexp, skipManual, dryRun, exists, sameHashFiles,
                   keep, delFiles, delIdx, prompts, returned, announced, report,
                   removeCalls>>

\* cleanUp, lines 510-533: the set is printed, the preferred file is looked
\* for, and the set is skipped when there is none and skipManual is set
Present ==
    /\ pc = "cleanUp"
    /\ IF idx <= Len(sameHashFiles)
       THEN LET files == sameHashFiles[idx]
                k == PreferLoop(preferRegexp, files, 0, 0)
            IN /\ listed' = [listed EXCEPT ![idx] = files]
               /\ keep' = k
               /\ IF SkipsManual(k, skipManual)
                  THEN /\ report' = [report EXCEPT
                                        ![idx] = Append(@, "Preferred file not found, deletion skipped.")]
                       /\ idx' = idx + 1
                       /\ pc' = pc
                  ELSE /\ pc' = "line535"
                       /\ UNCHANGED <<report, idx>>
       ELSE /\ pc' = "exit"
            /\ UNCHANGED <<listed, keep, report, idx>>
    /\ UNCHANGED <<hashVars, fileVars, scanVars, parseVars, v2Vars>>
    /\ UNCHANGED <<fix, preferRegexp, skipManual, dryRun, exists, sameHashFiles,
                   delFiles, delIdx, prompts, returned, announced, removeCalls>>

\* cleanUp, line 535: readInt is called while keep is not an index of the set
KeepLoop ==
    /\ pc = "line535"
    /\ pc' = IF NeedsInput(keep, Len(sameHashFiles[idx])) THEN "readInt" ELSE "line539"
    /\ UNCHANGED <<hashVars, fileVars, scanVars, parseVars, v2Vars>>
    /\ UNCHANGED <<fix, preferRegexp, skipManual, dryRun, exists, sameHashFiles,
                   idx, keep, delFiles, delIdx, listed, prompts, returned, announced, report,
                   removeCalls>>

\* readInt, lines 552-570: one prompt and one Scanf; readInt returns to line
\* 536 with a value, or prompts again
ReadInt(in) ==
    /\ pc = "readInt"
    /\ prompts[idx] < MaxInputs
    /\ prompts' = [prompts EXCEPT ![idx] = @ + 1]
    /\ LET r == ReadIntTurn(in, Len(sameHashFiles[idx]))
       IN IF ~r.returns
          THEN UNCHANGED <<keep, pc, returned>>
          ELSE /\ keep' = r.i
               /\ returned' = [returned EXCEPT ![idx] = Append(@, r.i)]
               /\ pc' = "line535"
    /\ UNCHANGED <<hashVars, fileVars, scanVars, parseVars, v2Vars>>
    /\ UNCHANGED <<fix, preferRegexp, skipManual, dryRun, exists, sameHashFiles,
                   idx, delFiles, delIdx, listed, announced, report, removeCalls>>

\* cleanUp, lines 539-547, with line 574 of deleteOtherFiles
Decide ==
    /\ pc = "line539"
    /\ IF keep = 0
       THEN /\ report' = [report EXCEPT ![idx] = Append(@, "Deletion skipped.")]
            /\ idx' = idx + 1
            /\ pc' = "cleanUp"
            /\ UNCHANGED <<announced, sameHashFiles, delFiles, delIdx>>
       ELSE IF keep > 0
       THEN /\ announced' = [announced EXCEPT ![idx] = Append(@, sameHashFiles[idx][keep])]
            /\ delFiles' = DelFiles(sameHashFiles[idx], keep)
            /\ sameHashFiles' = [sameHashFiles EXCEPT ![idx] = AppendInPlace(@, keep)]
            /\ delIdx' = 1
            /\ pc' = "remove"
            /\ UNCHANGED <<report, idx>>
       ELSE /\ idx' = idx + 1
            /\ pc' = "cleanUp"
            /\ UNCHANGED <<report, announced, sameHashFiles, delFiles, delIdx>>
    /\ UNCHANGED <<hashVars, fileVars, scanVars, parseVars, v2Vars>>
    /\ UNCHANGED <<fix, preferRegexp, skipManual, dryRun, exists, keep, listed,
                   prompts, returned, removeCalls>>

\* a variant of NextDel that leaves the loop at the first error
NextDelUntilError(ok, j, n) == IF ok THEN j + 1 ELSE n + 1

\* lines 576-585: the loop goes on to the next file after a removal and
\* after an error alike
NextDel(ok, j, n) == j + 1

\* lines 580-584: what is printed after an os.Remove
Outcome(ok) == IF ok THEN "done." ELSE "error"

\* deleteOtherFiles, lines 576-585: one os.Remove, which fails when the file
\* is gone and may fail for other reasons (ok = FALSE); after the last one
\* cleanUp goes on with the next set
Remove(ok) ==
    /\ pc = "remove"
    /\ IF delIdx <= Len(delFiles)
       THEN LET file == delFiles[delIdx]
            IN /\ removeCalls' = [removeCalls EXCEPT ![idx] = Append(@, file)]
               /\ exists' = IF ok /\ file \in exists THEN exists \ {file} ELSE exists
               /\ report' = [report EXCEPT ![idx] = Append(@, Outcome(ok))]
               /\ delIdx' = NextDel(ok, delIdx, Len(delFiles))
               /\ UNCHANGED <<pc, idx>>
       ELSE /\ ok
            /\ report' = [report EXCEPT ![idx] = Append(@, "deleted")]
            /\ idx' = idx + 1
            /\ pc' = "cleanUp"
            /\ UNCHANGED <<removeCalls, exists, delIdx>>
    /\ UNCHANGED <<hashVars, fileVars, scanVars, parseVars, v2Vars>>
    /\ UNCHANGED <<fix, preferRegexp, skipManual, dryRun, sameHashFiles, keep,
                   delFiles, listed, prompts, returned, announced>>

\* ------------------------------------------------- the fingerprint engine
\* the resolution has not begun (SpecHash ends at line 328 of main)
FixIdle ==
    /\ fix = FALSE
    /\ preferRegexp = NilRegexp
    /\ skipManual = FALSE
    /\ dryRun = FALSE
    /\ exists = Paths
    /\ idx = 0
    /\ keep = 0
    /\ delFiles = <<>>
    /\ delIdx = 0
    /\ listed = <<>>
    /\ prompts = <<>>
    /\ returned = <<>>
    /\ announced = <<>>
    /\ report = <<>>
    /\ removeCalls = <<>>

fixLocals == <<fix, preferRegexp, skipManual, dryRun, exists, idx, keep, delFiles,
               delIdx, listed, prompts, returned, announced, report, removeCalls>>

InBuckets(l) == UNION {Range(l[k]) : k \in DOMAIN l}

\* the sizes of the files of the buckets l: a bucket is the list of one key
\* of the size map, so its files have one size and two buckets have two;
\* the files of the k-th bucket are taken to have k bytes
SizeByBucket(l) ==
    [p \in Paths |->
        IF p \in InBuckets(l)
        THEN CHOOSE k \in DOMAIN l : p \in Range(l[k])
        ELSE 0]

\* the contents of the files are taken up to a renaming of the contents: a
\* file has the content of an earlier path or the next unused content
FirstUse(h, p) == \A c \in 1..(h[p] - 1) : \E q \in 1..(p - 1) : h[q] = c

InitHash ==
    /\ fsLimit \in 0..MaxLimit
    /\ sameSizeFiles \in BucketLists
    /\ head \in [Paths -> Contents]
    /\ \A p \in Paths \ InBuckets(sameSizeFiles) : head[p] = 1
    /\ \A p \in Paths : FirstUse(head, p)
    /\ pc = "line387"
    /\ cur = 0
    /\ count = 0
    /\ sameHashFiles = <<>>
    /\ i = 0
    /\ wg = [k \in DOMAIN sameSizeFiles |-> 0]
    /\ wpc = [p \in Paths |-> "idle"]
    /\ sent = [p \in Paths |-> 0]
    /\ received = 0
    /\ uniqueHashes = [d \in Contents |-> <<>>]
    /\ ioFailed = {}
    /\ fsize = SizeByBucket(sameSizeFiles)
    /\ tail = NoTail
    /\ FixIdle
    /\ ScanIdle
    /\ ParseIdle
    /\ V2Idle

\* the bucket getUniqueHashes is working on, and the bucket of a path
Files == sameSizeFiles[cur + 1]
BucketOf(p) == CHOOSE k \in DOMAIN sameSizeFiles : p \in Range(sameSizeFiles[k])

\* a variant of Md5Sum that sums a hasher nothing was written to
Md5SumOfNothing(data) == 1

\* md5 of the 1024-byte buffer (lines 440-445), collisions apart
Md5Sum(data) == data

\* line 429: the length of the buffer hashWorker reads into
SampleSize == 1024

\* lines 429-431: the buffer after f.Read: the first bytes of the file,
\* followed by zeros when the file has fewer than SampleSize; the files of
\* a bucket have one size, so their buffers differ as these bytes do
Buffer(p) == head[p]

\* line 431: f.Read fails when the file system does, and with io.EOF when
\* the file has no byte
ReadFills(size, ok) == ok /\ size > 0

\* line 463: the launching loop waits after launching the i-th worker
WaitsAt(n, lim) == lim > 0 /\ n % lim = 0

\* a variant of RecvMax that stops one result early
RecvMaxOneLess(files) == Len(files) - 1

\* line 471: the number of results getHashResults receives
RecvMax(files) == Len(files)

\* a variant of IsDuplicate that lets the groups of one path through
IsGroup(paths) == Len(paths) > 0

\* line 395: the groups that go to sameHashFiles
IsDuplicate(paths) == Len(paths) > 1

RECURSIVE CountPaths(_, _)
CountPaths(groups, n) ==
    IF n = 0 THEN 0 ELSE Len(groups[n]) + CountPaths(groups, n - 1)

\* a variant of MakeMap that goes on with the map of the previous bucket
ReuseMap(old) == old

\* line 476: getHashResults collects into a map of its own, made empty
MakeMap(old) == [d \in Contents |-> <<>>]

\* filterSameHashFiles, line 387: the next bucket is handed to
\* getUniqueHashes (lines 458-459), or the loop ends (lines 403-405)
RangeBuckets ==
    /\ pc = "line387"
    /\ IF cur < Len(sameSizeFiles)
       THEN /\ i' = 0
            /\ pc' = "line461"
       ELSE /\ pc' = "line321"
            /\ i' = i
    /\ UNCHANGED <<fsLimit, head, sameSizeFiles, cur, count, wg, wpc, sent,
                   received, uniqueHashes, ioFailed, sameHashFiles>>
    /\ UNCHANGED <<fixLocals, fileVars, scanVars, parseVars, v2Vars>>

\* getUniqueHashes, lines 461-469 and 471: one worker is launched, or the
\* loop ends and getHashResults begins (line 476)
Launch ==
    /\ pc = "line461"
    /\ IF i < Len(Files)
       THEN /\ wpc' = [wpc EXCEPT ![Files[i + 1]] = "line416"]
            /\ IF WaitsAt(i, fsLimit)
               THEN /\ pc' = "line467"
                    /\ i' = i
               ELSE /\ pc' = pc
                    /\ i' = i + 1
            /\ UNCHANGED <<received, uniqueHashes>>
       ELSE /\ pc' = "line478"
            /\ received' = 0
            /\ uniqueHashes' = MakeMap(uniqueHashes)
            /\ UNCHANGED <<wpc, i>>
    /\ UNCHANGED <<fsLimit, head, sameSizeFiles, cur, count, wg, sent, ioFailed,
                   sameHashFiles>>
    /\ UNCHANGED <<fixLocals, fileVars, scanVars, parseVars, v2Vars>>

\* getUniqueHashes, line 467: wg.Wait() returns when the counter is zero
Wait ==
    /\ pc = "line467"
    /\ wg[cur + 1] = 0
    /\ i' = i + 1
    /\ pc' = "line461"
    /\ UNCHANGED <<fsLimit, head, sameSizeFiles, cur, count, wg, wpc, sent,
                   received, uniqueHashes, ioFailed, sameHashFiles>>
    /\ UNCHANGED <<fixLocals, fileVars, scanVars, parseVars, v2Vars>>

\* the process runs: log.Fatal has not ended it and main has not returned
Running == pc \notin {"fatal", "exit"}

\* hashWorker, line 416
WgAdd(p) ==
    /\ Running
    /\ wpc[p] = "line416"
    /\ wg' = [wg EXCEPT ![BucketOf(p)] = @ + 1]
    /\ wpc' = [wpc EXCEPT ![p] = "line423"]
    /\ UNCHANGED <<fsLimit, head, sameSizeFiles, cur, count, i, sent, received,
                   uniqueHashes, ioFailed, sameHashFiles, pc>>
    /\ UNCHANGED <<fixLocals, fileVars, scanVars, parseVars, v2Vars>>

\* what an open or read failure does to the process: log.Fatal ends it
\* (lines 425, 433, 437)
AfterIoError(at) == "fatal"

\* hashWorker, lines 423-426: os.Open
Open(p, ok) ==
    /\ Running
    /\ wpc[p] = "line423"
    /\ IF ok
       THEN /\ wpc' = [wpc EXCEPT ![p] = "line431"]
            /\ UNCHANGED <<pc, ioFailed>>
       ELSE /\ ioFailed' = ioFailed \cup {p}
            /\ pc' = AfterIoError(pc)
            /\ wpc' = wpc
    /\ UNCHANGED <<fsLimit, head, sameSizeFiles, cur, count, i, wg, sent,
                   received, uniqueHashes, sameHashFiles>>
    /\ UNCHANGED <<fixLocals, fileVars, scanVars, parseVars, v2Vars>>

\* hashWorker, lines 429-451: f.Read (which fails on an empty file, too),
\* f.Close and the hashing
Read(p, ok) ==
    /\ Running
    /\ wpc[p] = "line431"
    /\ IF ReadFills(fsize[p], ok)
       THEN /\ wpc' = [wpc EXCEPT ![p] = "line453"]
            /\ UNCHANGED <<pc, ioFailed>>
       ELSE /\ ioFailed' = ioFailed \cup {p}
            /\ pc' = AfterIoError(pc)
            /\ wpc' = wpc
    /\ UNCHANGED <<fsLimit, head, sameSizeFiles, cur, count, i, wg, sent,
                   received, uniqueHashes, sameHashFiles>>
    /\ UNCHANGED <<fixLocals, fileVars, scanVars, parseVars, v2Vars>>

\* a variant of Deposit that appends the path twice
DepositTwice(m, d, path) == [m EXCEPT ![d] = Append(Append(@, path), path)]

\* a variant of Deposit that keeps only the last path of a digest
DepositLast(m, d, path) == [m EXCEPT ![d] = <<path>>]

\* getHashResults, lines 486-490: the path joins the list of its digest
Deposit(m, d, path) == [m EXCEPT ![d] = Append(@, path)]

\* hashWorker line 453 with getHashResults lines 478-490: md5s has no
\* buffer, so the send of the worker of p and one receive are one step; the
\* worker only ever sends a nil err, so lines 481-484 never apply
Recv(p) ==
    /\ pc = "line478"
    /\ received < RecvMax(Files)
    /\ p \in Range(Files)
    /\ wpc[p] = "line453"
    /\ wpc' = [wpc EXCEPT ![p] = "line417"]
    /\ sent' = [sent EXCEPT ![p] = @ + 1]
    /\ received' = received + 1
    /\ uniqueHashes' = Deposit(uniqueHashes, Md5Sum(Buffer(p)), p)
    /\ UNCHANGED <<fsLimit, head, sameSizeFiles, cur, count, i, wg, ioFailed,
                   sameHashFiles, pc>>
    /\ UNCHANGED <<fixLocals, fileVars, scanVars, parseVars, v2Vars>>

\* hashWorker, line 417: the deferred wg.Done()
Done(p) ==
    /\ Running
    /\ wpc[p] = "line417"
    /\ wg' = [wg EXCEPT ![BucketOf(p)] = @ - 1]
    /\ wpc' = [wpc EXCEPT ![p] = "done"]
    /\ UNCHANGED <<fsLimit, head, sameSizeFiles, cur, count, i, sent, received,
                   uniqueHashes, ioFailed, sameHashFiles, pc>>
    /\ UNCHANGED <<fixLocals, fileVars, scanVars, parseVars, v2Vars>>

\* getHashResults, lines 478 and 493: after max results it returns, and so
\* does getUniqueHashes (line 471)
Return ==
    /\ pc = "line478"
    /\ received >= RecvMax(Files)
    /\ pc' = "line394"
    /\ UNCHANGED <<fsLimit, head, sameSizeFiles, cur, count, i, wg, wpc, sent,
                   received, uniqueHashes, ioFailed, sameHashFiles>>
    /\ UNCHANGED <<fixLocals, fileVars, scanVars, parseVars, v2Vars>>

\* filterSameHashFiles, lines 394-400: the groups of 2 or more paths are
\* appended, in the order the range over the map visits them
Collect ==
    /\ pc = "line394"
    /\ \E order \in Orders({d \in Contents : IsDuplicate(uniqueHashes[d])}) :
          LET groups == [k \in DOMAIN order |-> uniqueHashes[order[k]]]
          IN /\ sameHashFiles' = sameHashFiles \o groups
             /\ count' = count + CountPaths(groups, Len(groups))
    /\ cur' = cur + 1
    /\ pc' = "line387"
    /\ UNCHANGED <<fsLimit, head, sameSizeFiles, i, wg, wpc, sent, received,
                   uniqueHashes, ioFailed>>
    /\ UNCHANGED <<fixLocals, fileVars, scanVars, parseVars, v2Vars>>

\* main, lines 321-326: with no duplicate main returns, else it goes on to
\* list or fix them
MainCount ==
    /\ pc = "line321"
    /\ pc' = IF count > 0 THEN "main328" ELSE "exit"
    /\ UNCHANGED <<fsLimit, head, sameSizeFiles, cur, count, i, wg, wpc, sent,
                   received, uniqueHashes, ioFailed, sameHashFiles>>
    /\ UNCHANGED <<fixLocals, fileVars, scanVars, parseVars, v2Vars>>

NextHash ==
    \/ RangeBuckets
    \/ Launch
    \/ Wait
    \/ \E p \in Paths : WgAdd(p)
    \/ \E p \in Paths, ok \in BOOLEAN : Open(p, ok)
    \/ \E p \in Paths, ok \in BOOLEAN : Read(p, ok)
    \/ \E p \in Paths : Recv(p)
    \/ \E p \in Paths : Done(p)
    \/ Return
    \/ Collect
    \/ MainCount

SpecHash == InitHash /\ [][NextHash]_vars

\* one bucket whose list is in any order: the paths 1..n in every
\* permutation, with no limit on the open files or the limit of one
InitOrder ==
    /\ fsLimit \in {0, 1}
    /\ \E n \in 2..MaxBucketLen : \E files \in Orders(1..n) :
          sameSizeFiles = <<files>>
    /\ head \in [Paths -> Contents]
    /\ \A p \in Paths \ InBuckets(sameSizeFiles) : head[p] = 1
    /\ \A p \in Paths : FirstUse(head, p)
    /\ pc = "line387"
    /\ cur = 0
    /\ count = 0
    /\ sameHashFiles = <<>>
    /\ i = 0
    /\ wg = [k \in DOMAIN sameSizeFiles |-> 0]
    /\ wpc = [p \in Paths |-> "idle"]
    /\ sent = [p \in Paths |-> 0]
    /\ received = 0
    /\ uniqueHashes = [d \in Contents |-> <<>>]
    /\ ioFailed = {}
    /\ fsize = SizeByBucket(sameSizeFiles)
    /\ tail = NoTail
    /\ FixIdle
    /\ ScanIdle
    /\ ParseIdle
    /\ V2Idle

SpecOrder == InitOrder /\ [][NextHash]_vars

\* the sizes of the files of a bucket: none, some and all but one of the
\* bytes of the buffer, just as many, and more
FileSizes == {0, 1, SampleSize - 1, SampleSize, SampleSize + 1}

\* what can follow the first SampleSize bytes of a file
Tails == {1, 2}

\* one bucket of files of any of these sizes, on a file system that does
\* not fail; the contents are taken up to a renaming
InitSample ==
    /\ fsLimit \in {0, 1}
    /\ sameSizeFiles \in RunLists(MaxBucketLen, 1)
    /\ \E size \in FileSizes :
          fsize = [p \in Paths |-> IF p \in InBuckets(sameSizeFiles) THEN size ELSE 0]
    /\ head \in [Paths -> Contents]
    /\ \A p \in Paths : (p \notin InBuckets(sameSizeFiles) \/ fsize[p] = 0) => head[p] = 1
    /\ \A p \in Paths : FirstUse(head, p)
    /\ tail \in [Paths -> {0} \cup Tails]
    /\ \A p \in Paths :
          tail[p] # 0 <=> (p \in InBuckets(sameSizeFiles) /\ fsize[p] > SampleSize)
    /\ \A p \in InBuckets(sameSizeFiles) : FirstUse(tail, p)
    /\ pc = "line387"
    /\ cur = 0
    /\ count = 0
    /\ sameHashFiles = <<>>
    /\ i = 0
    /\ wg = [k \in DOMAIN sameSizeFiles |-> 0]
    /\ wpc = [p \in Paths |-> "idle"]
    /\ sent = [p \in Paths |-> 0]
    /\ received = 0
    /\ uniqueHashes = [d \in Contents |-> <<>>]
    /\ ioFailed = {}
    /\ FixIdle
    /\ ScanIdle
    /\ ParseIdle
    /\ V2Idle

NextSample ==
    \/ RangeBuckets
    \/ Launch
    \/ Wait
    \/ \E p \in Paths : WgAdd(p)
    \/ \E p \in Paths : Open(p, TRUE)
    \/ \E p \in Paths : Read(p, TRUE)
    \/ \E p \in Paths : Recv(p)
    \/ \E p \in Paths : Done(p)
    \/ Return
    \/ Collect
    \/ MainCount

SpecSample == InitSample /\ [][NextSample]_vars

\* the steps of the main goroutine (the launcher, then the collector), and
\* those of the worker of p, on a file system that does not fail
MainStep ==
    \/ RangeBuckets
    \/ Launch
    \/ Wait
    \/ \E p \in Paths : Recv(p)
    \/ Return
    \/ Collect
    \/ MainCount

WorkerStep(p) == WgAdd(p) \/ Open(p, TRUE) \/ Read(p, TRUE) \/ Recv(p) \/ Done(p)

\* the Go scheduler lets every goroutine that can take a step take one
Fairness == WF_vars(MainStep) /\ \A p \in Paths : WF_vars(WorkerStep(p))

SpecLive == InitHash /\ [][NextSample]_vars /\ Fairness

\* -------------------------------------------------------- release 0.2.0
\* src/unnamed/part_002, the release with the --limit option: its workers
\* read the whole file and send an error record when that fails, and
\* filterSameHashFiles, cleanUp and listAll stop at the limit.  The line
\* numbers of this section are those of part_002.

\* a variant of LimitReached that stops one round late
LimitReachedLate(lim, n) == lim > 0 /\ n > lim

\* lines 158, 260, 328: the loop leaves at its n-th round (n from 0)
LimitReached(lim, n) == lim > 0 /\ n >= lim

\* a variant of Accepts that takes the error records, too
AcceptsAll(err) == TRUE

\* lines 239-242: getHashResults passes over a result with an error
Accepts(err) == ~err

\* the digests of a call of getUniqueHashes: those of the contents, and 0
\* for the empty md5 of an error record (line 204)
V2Digests == {0} \cup Contents

\* the buckets of this release: a bucket can hold every path, so that one
\* bucket can give two sets
V2BucketLists == RunLists(NumPaths, MaxBuckets)

InitV2 ==
    /\ limit \in 0..MaxLimit
    /\ fix \in BOOLEAN
    /\ sameSizeFiles \in V2BucketLists
    /\ head \in [Paths -> Contents]
    /\ \A p \in Paths \ InBuckets(sameSizeFiles) : head[p] = 1
    /\ \A p \in Paths : FirstUse(head, p)
    /\ fsize = SizeByBucket(sameSizeFiles)
    /\ tail = NoTail
    /\ pc = "v2line157"
    /\ fsLimit = 0
    /\ cur = 0
    /\ count = 0
    /\ sameHashFiles = <<>>
    /\ i = 0
    /\ wg = <<>>
    /\ wpc = [p \in Paths |-> "idle"]
    /\ sent = [p \in Paths |-> 0]
    /\ received = 0
    /\ uniqueHashes = [d \in V2Digests |-> <<>>]
    /\ ioFailed = {}
    /\ errs = {}
    /\ preferRegexp = NilRegexp
    /\ skipManual = FALSE
    /\ dryRun = FALSE
    /\ exists = Paths
    /\ idx = 0
    /\ keep = 0
    /\ delFiles = <<>>
    /\ delIdx = 0
    /\ listed = <<>>
    /\ prompts = <<>>
    /\ returned = <<>>
    /\ announced = <<>>
    /\ report = <<>>
    /\ removeCalls = <<>>
    /\ ScanIdle
    /\ ParseIdle

v2Fixed == <<fsLimit, head, sameSizeFiles, wg, fix, preferRegexp, skipManual,
             dryRun, delFiles, delIdx, prompts, limit, fileVars, scanVars,
             parseVars>>

\* filterSameHashFiles, lines 157-163: the next bucket goes to
\* getUniqueHashes unless the limit is reached, else the loop ends
V2RangeBuckets ==
    /\ pc = "v2line157"
    /\ IF cur < Len(sameSizeFiles) /\ ~LimitReached(limit, cur)
       THEN /\ i' = 0
            /\ pc' = "v2line225"
       ELSE /\ pc' = "v2line61"
            /\ i' = i
    /\ UNCHANGED <<cur, count, wpc, sent, received, uniqueHashes, ioFailed, errs,
                   sameHashFiles, exists, idx, keep, listed, returned, announced,
                   report, removeCalls>>
    /\ UNCHANGED v2Fixed

\* getUniqueHashes, lines 225-229: a worker is launched, or the loop ends
\* and getHashResults begins (line 234)
V2Launch ==
    /\ pc = "v2line225"
    /\ IF i < Len(Files)
       THEN /\ wpc' = [wpc EXCEPT ![Files[i + 1]] = "v2line199"]
            /\ i' = i + 1
            /\ UNCHANGED <<pc, received, uniqueHashes>>
       ELSE /\ pc' = "v2line236"
            /\ received' = 0
            /\ uniqueHashes' = [d \in V2Digests |-> <<>>]
            /\ UNCHANGED <<wpc, i>>
    /\ UNCHANGED <<cur, count, sent, ioFailed, errs, sameHashFiles, exists, idx,
                   keep, listed, returned, announced, report, removeCalls>>
    /\ UNCHANGED v2Fixed

\* hashWorker, lines 199-212: ioutil.ReadFile and the sum of its data
V2ReadFile(p, ok) ==
    /\ wpc[p] = "v2line199"
    /\ pc # "exit"
    /\ wpc' = [wpc EXCEPT ![p] = IF ok THEN "v2line218" ELSE "v2line204"]
    /\ ioFailed' = IF ok THEN ioFailed ELSE ioFailed \cup {p}
    /\ UNCHANGED <<pc, cur, count, i, sent, received, uniqueHashes, errs,
                   sameHashFiles, exists, idx, keep, listed, returned, announced,
                   report, removeCalls>>
    /\ UNCHANGED v2Fixed

\* hashWorker lines 204 and 218 with getHashResults lines 236-249: the
\* send of the worker of p and one receive are one step
V2Recv(p) ==
    /\ pc = "v2line236"
    /\ received < Len(Files)
    /\ wpc[p] \in {"v2line204", "v2line218"}
    /\ LET err == wpc[p] = "v2line204"
           md5 == IF err THEN 0 ELSE Md5Sum(head[p])
       IN /\ errs' = IF err THEN errs \cup {p} ELSE errs
          /\ uniqueHashes' = IF Accepts(err)
                              THEN Deposit(uniqueHashes, md5, p)
                              ELSE uniqueHashes
    /\ wpc' = [wpc EXCEPT ![p] = "done"]
    /\ sent' = [sent EXCEPT ![p] = @ + 1]
    /\ received' = received + 1
    /\ UNCHANGED <<pc, cur, count, i, ioFailed, sameHashFiles, exists, idx, keep,
                   listed, returned, announced, report, removeCalls>>
    /\ UNCHANGED v2Fixed

\* getHashResults, lines 236 and 251, and getUniqueHashes, line 229
V2Return ==
    /\ pc = "v2line236"
    /\ received >= Len(Files)
    /\ pc' = "v2line165"
    /\ UNCHANGED <<cur, count, i, wpc, sent, received, uniqueHashes, ioFailed,
                   errs, sameHashFiles, exists, idx, keep, listed, returned,
                   announced, report, removeCalls>>
    /\ UNCHANGED v2Fixed

\* filterSameHashFiles, lines 165-171
V2Collect ==
    /\ pc = "v2line165"
    /\ \E order \in Orders({d \in V2Digests : IsDuplicate(uniqueHashes[d])}) :
          LET groups == [k \in DOMAIN order |-> uniqueHashes[order[k]]]
          IN /\ sameHashFiles' = sameHashFiles \o groups
             /\ count' = count + CountPaths(groups, Len(groups))
    /\ cur' = cur + 1
    /\ pc' = "v2line157"
    /\ UNCHANGED <<i, wpc, sent, received, uniqueHashes, ioFailed, errs, exists,
                   idx, keep, listed, returned, announced, report, removeCalls>>
    /\ UNCHANGED v2Fixed

\* main, lines 61-72
V2Main ==
    /\ pc = "v2line61"
    /\ pc' = IF count = 0 THEN "exit" ELSE IF fix THEN "v2line259" ELSE "v2line327"
    /\ idx' = 0
    /\ UNCHANGED <<cur, count, i, wpc, sent, received, uniqueHashes, ioFailed,
                   errs, sameHashFiles, exists, keep, listed, returned, announced,
                   report, removeCalls>>
    /\ UNCHANGED v2Fixed

\* cleanUp, lines 259-282, one round for the set of key idx: the set is
\* shown, readInt returns r (0, or an index of the set) and the other
\* files are removed; or the loop ends, by the limit or the last set
V2CleanUp(r) ==
    /\ pc = "v2line259"
    /\ IF idx < Len(sameHashFiles) /\ ~LimitReached(limit, idx)
       THEN LET files == sameHashFiles[idx + 1] IN
            /\ r \in 0..Len(files)
            /\ listed' = Append(listed, files)
            /\ returned' = Append(returned, <<r>>)
            /\ keep' = r
            /\ IF r = 0
               THEN /\ report' = Append(report, <<"Deletion skipped.">>)
                    /\ announced' = Append(announced, <<>>)
                    /\ removeCalls' = Append(removeCalls, <<>>)
                    /\ UNCHANGED <<sameHashFiles, exists>>
               ELSE /\ report' = Append(report, <<"deleted">>)
                    /\ announced' = Append(announced, <<files[r]>>)
                    /\ removeCalls' = Append(removeCalls, DelFiles(files, r))
                    /\ sameHashFiles' = [sameHashFiles EXCEPT
                                            ![idx + 1] = AppendInPlace(files, r)]
                    /\ exists' = exists \ Range(DelFiles(files, r))
            /\ idx' = idx + 1
            /\ pc' = pc
       ELSE /\ r = 0
            /\ pc' = "exit"
            /\ UNCHANGED <<listed, returned, keep, report, announced, removeCalls,
                           sameHashFiles, exists, idx>>
    /\ UNCHANGED <<cur, count, i, wpc, sent, received, uniqueHashes, ioFailed, errs>>
    /\ UNCHANGED v2Fixed

\* listAll, lines 327-340, one round; or the loop ends
V2ListAll ==
    /\ pc = "v2line327"
    /\ IF idx < Len(sameHashFiles) /\ ~LimitReached(limit, idx)
       THEN /\ listed' = Append(listed, sameHashFiles[idx + 1])
            /\ idx' = idx + 1
            /\ pc' = pc
       ELSE /\ pc' = "exit"
            /\ UNCHANGED <<listed, idx>>
    /\ UNCHANGED <<cur, count, i, wpc, sent, received, uniqueHashes, ioFailed,
                   errs, sameHashFiles, exists, keep, returned, announced, report,
                   removeCalls>>
    /\ UNCHANGED v2Fixed

NextV2 ==
    \/ V2RangeBuckets
    \/ V2Launch
    \/ \E p \in Paths, ok \in BOOLEAN : V2ReadFile(p, ok)
    \/ \E p \in Paths : V2Recv(p)
    \/ V2Return
    \/ V2Collect
    \/ V2Main
    \/ \E r \in 0..NumPaths : V2CleanUp(r)
    \/ V2ListAll

SpecV2 == InitV2 /\ [][NextV2]_vars

\* ------------------------------------------------------ the resolution
NextFix ==
    \/ Dispatch
    \/ ListAll
    \/ Present
    \/ KeepLoop
    \/ \E in \in ScanInputs : ReadInt(in)
    \/ Decide
    \/ \E ok \in BOOLEAN : Remove(ok)

SpecFix == InitFix /\ [][NextFix]_vars

\* ------------------------------------------------------------ the scan
\* In the scan a path is the string of its bytes.  The tree is taken among
\* those of the root r, a directory, with the entries a (a file, a link or a
\* directory that may hold z), a.t and b (a file or a link each).
Root == <<114>>
NameA == <<97>>
NameZ == <<122>>
NameAT == <<97, 46, 116>>
NameB == <<98>>

\* filepath.Join(dir, name)
Join(dir, name) == dir \o <<47>> \o name

PathA == Join(Root, NameA)
PathAZ == Join(PathA, NameZ)
PathAT == Join(Root, NameAT)
PathB == Join(Root, NameB)
Slots == {Root, PathA, PathAZ, PathAT, PathB}
Names == {NameA, NameZ, NameAT, NameB}

Trees ==
    {t \in [Slots -> {"none", "file", "link", "dir"}] :
        /\ t[Root] = "dir"
        /\ t[PathAZ] # "dir" /\ t[PathAT] # "dir" /\ t[PathB] # "dir"
        /\ t[PathA] # "dir" => t[PathAZ] = "none"}

Sizes == 0..MaxSize

\* the comparison of two strings byte by byte, as sort.Strings and < do it
RECURSIVE LexLess(_, _)
LexLess(x, y) ==
    IF y = <<>> THEN FALSE
    ELSE IF x = <<>> THEN TRUE
    ELSE IF Head(x) # Head(y) THEN Head(x) < Head(y)
    ELSE LexLess(Tail(x), Tail(y))

\* readDirNames of filepath.Walk: the entries of the directory dir, which
\* Walk visits by ascending name
Children(dir) == {q \in Slots : tree[q] # "none" /\ \E n \in Names : q = Join(dir, n)}

RECURSIVE SortedPaths(_)
SortedPaths(S) ==
    IF S = {} THEN <<>>
    ELSE LET first == CHOOSE q \in S : \A o \in S \ {q} : LexLess(q, o)
         IN <<first>> \o SortedPaths(S \ {first})

\* a file outside the tree under Root
Outside == <<111>>

\* where a symbolic link points: the one at PathB out of the tree, the
\* others to PathB
Readlink(path) == IF path = PathB THEN Outside ELSE PathB

\* line 343: filepath.EvalSymlinks follows the links of the path to the
\* end; an entry that is no link resolves to its own path
RECURSIVE EvalSymlinks(_)
EvalSymlinks(path) ==
    IF path \in Slots /\ tree[path] = "link"
    THEN EvalSymlinks(Readlink(path))
    ELSE path

\* line 343: a link that points to nothing cannot be resolved
Dangling(path) ==
    LET p == EvalSymlinks(path) IN p \in Slots /\ tree[p] = "none"

\* a variant of IsAlias that takes no entry for an alias
NeverAlias(path) == FALSE

\* line 347: the resolved path is not the visited one
IsAlias(path) == EvalSymlinks(path) # path

\* what can go wrong when Walk comes to an entry: its lstat fails, the
\* directory cannot be read, the path cannot be resolved (and the path of a
\* dangling link never can)
Faults(path) ==
    (IF Dangling(path) THEN {} ELSE {"none"})
        \cup {"lstat"}
        \cup (IF tree[path] = "dir" THEN {"readdir"} ELSE {"evalsymlinks"})

\* lines 339-341 and 358: what visit returns for a directory and after
\* recording; it is nil whatever err Walk has handed it
VisitReturns(err) == FALSE

\* lines 351-355: the path is appended to the list of its size
Record(m, size, path) == [m EXCEPT ![size] = Append(@, path)]

\* a variant of KeepsBucket that keeps the buckets of one path, too
KeepsAnyBucket(files) == Len(files) > 0

\* line 372: the buckets filterSameSizeFiles keeps
KeepsBucket(files) == Len(files) > 1

RECURSIVE CountKept(_, _)
CountKept(m, S) ==
    IF S = {} THEN 0
    ELSE LET size == CHOOSE x \in S : TRUE
         IN Len(m[size]) + CountKept(m, S \ {size})

\* a map from sizes to lists of paths has a list for every size of Sizes,
\* the empty list for a key the Go map does not have
EmptyMap == [size \in Sizes |-> <<>>]

InitScan ==
    /\ tree \in Trees
    /\ sizes \in [Slots -> Sizes]
    /\ \A q \in Slots : tree[q] # "file" => sizes[q] = 0
    /\ walkTodo = <<Root>>
    /\ filesizes = EmptyMap
    /\ walkErr = FALSE
    /\ walkFaults = {}
    /\ sameSizeMap = EmptyMap
    /\ sizeCount = 0
    /\ pc = "walk"
    /\ sameHashFiles = <<>>
    /\ FixIdle
    /\ HashIdle
    /\ ParseIdle
    /\ V2Idle

\* filepath.Walk comes to its next entry and calls visit (lines 338-359)
Visit(fault) ==
    /\ pc = "walk"
    /\ walkTodo # <<>>
    /\ LET path == Head(walkTodo) IN
       /\ fault \in Faults(path)
       /\ walkFaults' = IF fault \in {"lstat", "readdir"}
                         THEN walkFaults \cup {path} ELSE walkFaults
       /\ IF fault = "lstat"
          \* f is nil: f.IsDir() of line 339 panics
          THEN /\ pc' = "panic"
               /\ UNCHANGED <<walkTodo, filesizes, walkErr>>
          ELSE IF tree[path] = "dir"
          \* lines 339-341; without its names Walk leaves the directory
          THEN /\ IF VisitReturns(fault = "readdir")
                  THEN /\ walkErr' = TRUE
                       /\ walkTodo' = <<>>
                  ELSE /\ walkErr' = walkErr
                       /\ walkTodo' = IF fault = "readdir"
                                       THEN Tail(walkTodo)
                                       ELSE SortedPaths(Children(path)) \o Tail(walkTodo)
               /\ UNCHANGED <<pc, filesizes>>
          ELSE IF fault = "evalsymlinks"
          \* lines 343-346
          THEN /\ pc' = "panic"
               /\ UNCHANGED <<walkTodo, filesizes, walkErr>>
          \* lines 347-355
          ELSE /\ filesizes' = IF IsAlias(path)
                                THEN filesizes
                                ELSE Record(filesizes, sizes[path], path)
               /\ walkTodo' = Tail(walkTodo)
               /\ UNCHANGED <<pc, walkErr>>
    /\ UNCHANGED <<tree, sizes, sameSizeMap, sizeCount>>
    /\ UNCHANGED <<sameHashFiles, fixLocals, hashVars, fileVars, parseVars, v2Vars>>

\* lines 361-363 and main, lines 304-310: Walk has returned
WalkReturn ==
    /\ pc = "walk"
    /\ walkTodo = <<>>
    /\ pc' = IF walkErr THEN "exit" ELSE "line312"
    /\ UNCHANGED scanVars
    /\ UNCHANGED <<sameHashFiles, fixLocals, hashVars, fileVars, parseVars, v2Vars>>

\* filterSameSizeFiles (lines 367-379) and main, lines 312-318
FilterSameSize ==
    /\ pc = "line312"
    /\ LET kept == {size \in Sizes : KeepsBucket(filesizes[size])}
           n == CountKept(filesizes, kept)
       IN /\ sameSizeMap' = [size \in Sizes |->
                                IF size \in kept THEN filesizes[size] ELSE <<>>]
          /\ sizeCount' = n
          /\ pc' = IF n > 0 THEN "line320" ELSE "exit"
    /\ UNCHANGED <<tree, sizes, walkTodo, filesizes, walkErr, walkFaults>>
    /\ UNCHANGED <<sameHashFiles, fixLocals, hashVars, fileVars, parseVars, v2Vars>>

NextScan ==
    \/ \E fault \in {"none", "lstat", "readdir", "evalsymlinks"} : Visit(fault)
    \/ WalkReturn
    \/ FilterSameSize

SpecScan == InitScan /\ [][NextScan]_vars

\* -------------------------------------------------- the selection line
\* a line typed at the prompt is a list of tokens that spaces separate: a
\* number, a range a-b of two numbers, or a word that is no number
Numbers == 0..(MaxSetLen + 1)
Tokens ==
    {[kind |-> "index", a |-> n, b |-> n] : n \in Numbers}
    \cup {[kind |-> "range", a |-> n, b |-> m] : n \in Numbers, m \in Numbers}
    \cup {[kind |-> "word", a |-> 0, b |-> 0]}
Lines == UNION {[1..n -> Tokens] : n \in 0..MaxTokens}

\* a token parseRead accepts: a number or a range within 1..max
TokenOk(tok, max) ==
    /\ tok.kind # "word"
    /\ 1 <= tok.a
    /\ tok.a <= tok.b
    /\ tok.b <= max

\* the indices a token names, in order
Expand(tok) == [k \in 1..(tok.b - tok.a + 1) |-> tok.a + k - 1]

RECURSIVE ExpandAll(_)
ExpandAll(s) == IF s = <<>> THEN <<>> ELSE Expand(Head(s)) \o ExpandAll(Tail(s))

\* v put at its place in the ascending list sorted, unless it is there
RECURSIVE InsertInt(_, _)
InsertInt(sorted, v) ==
    IF sorted = <<>> THEN <<v>>
    ELSE IF v < Head(sorted) THEN <<v>> \o sorted
    ELSE IF v = Head(sorted) THEN sorted
    ELSE <<Head(sorted)>> \o InsertInt(Tail(sorted), v)

\* a variant of uniqueInts that returns the list as it is
sameInts(ints) == ints

\* uniqueInts: the values of the list, each once, ascending
RECURSIVE uniqueInts(_)
uniqueInts(ints) ==
    IF ints = <<>> THEN <<>> ELSE InsertInt(uniqueInts(Tail(ints)), Head(ints))

\* parseRead(s, max): the indices to keep and ok, or nil and false when
\* the line is empty or one of its tokens is not accepted
parseRead(s, max) ==
    IF s # <<>> /\ \A k \in DOMAIN s : TokenOk(s[k], max)
    THEN [keep |-> uniqueInts(ExpandAll(s)), ok |-> TRUE]
    ELSE [keep |-> <<>>, ok |-> FALSE]

\* line 557, fmt.Scanf("%d", &i) on the line s: the verb takes the digits
\* the line begins with and Scanf returns without looking at what follows
\* them; a line that does not begin with a number gives an error
Scanf(s) ==
    IF s = <<>> \/ Head(s).kind = "word" THEN ScanErr
    ELSE [err |-> FALSE, i |-> Head(s).a]

InitParse ==
    /\ line \in Lines
    /\ lineMax \in 2..MaxSetLen
    /\ ppc = "typed"
    /\ got = [keep |-> <<>>, ok |-> FALSE]
    /\ turn = [returns |-> FALSE, i |-> 0]
    /\ pc = "readInt"
    /\ sameHashFiles = <<>>
    /\ FixIdle
    /\ HashIdle
    /\ ScanIdle
    /\ V2Idle

\* parseRead is applied to the line
ParseLine ==
    /\ ppc = "typed"
    /\ got' = parseRead(line, lineMax)
    /\ ppc' = "parsed"
    /\ UNCHANGED <<line, lineMax, turn>>
    /\ UNCHANGED <<pc, sameHashFiles, fixLocals, hashVars, fileVars, scanVars,
                   v2Vars>>

\* readInt, lines 555-569: one turn of its loop on the line
ScanLine ==
    /\ ppc = "typed"
    /\ turn' = ReadIntTurn(Scanf(line), lineMax)
    /\ ppc' = "scanned"
    /\ UNCHANGED <<line, lineMax, got>>
    /\ UNCHANGED <<pc, sameHashFiles, fixLocals, hashVars, fileVars, scanVars,
                   v2Vars>>

NextParse ==
    \/ ParseLine
    \/ ScanLine

SpecParse == InitParse /\ [][NextParse]_vars

\* ================================================================ claims
\* what the console and the operating system saw of the k-th duplicate set
Members(k) == Range(listed[k])
Removed(k) == Range(removeCalls[k])
Kept(k) == Range(announced[k])
Preferred(k) == {p \in Members(k) : ~preferRegexp.nil /\ MatchString(preferRegexp, p)}
Resolved(k) == "deleted" \in Range(report[k])
Sets == DOMAIN sameHashFiles
NoRepeat(s) == \A a, b \in DOMAIN s : a # b => s[a] # s[b]

\* C1: in fix mode the paths passed to os.Remove are members of the set,
\* each passed once, and never all of them; once the set is resolved the
\* removed paths and the path announced as kept partition the set.
C1_DeletePartition ==
    \A k \in Sets :
        /\ Removed(k) \subseteq Members(k)
        /\ NoRepeat(removeCalls[k])
        /\ removeCalls[k] # <<>> => Members(k) \ Removed(k) # {}
        /\ Resolved(k) =>
              /\ Removed(k) \cup Kept(k) = Members(k)
              /\ Removed(k) \cap Kept(k) = {}
              /\ Kept(k) # {}

C1_Witness ==
    \E k \in Sets : Resolved(k) /\ Len(removeCalls[k]) = 2 /\ prompts[k] > 0

\* C5 (as claimed): once the operator has answered 0 (keep all) for a set,
\* that was the last answer asked for the set, the set is reported skipped
\* with nothing removed, and cleanUp is not prompting for it again.
C5_KeepAllSkips ==
    \A k \in Sets :
        \A n \in DOMAIN returned[k] :
            returned[k][n] = 0 =>
                /\ n = Len(returned[k])
                /\ removeCalls[k] = <<>>
                /\ ~(pc = "readInt" /\ idx = k)

\* C6 (as claimed): with a prefer pattern, no path that matches it is ever
\* passed to os.Remove.
C6_PreferredNeverRemoved ==
    \A k \in Sets : Removed(k) \cap Preferred(k) = {}

\* C6 (amended): with a prefer pattern, when exactly one member of a set
\* matches it, that member is never passed to os.Remove.
C6_SolePreferredNeverRemoved ==
    \A k \in Sets :
        Cardinality(Preferred(k)) = 1 => Removed(k) \cap Preferred(k) = {}

C6_Witness ==
    \E k \in Sets :
        /\ Cardinality(Preferred(k)) = 1
        /\ Resolved(k)
        /\ Len(removeCalls[k]) = 2

\* C7: in fix mode, when exactly one member of a set matches the prefer
\* pattern, the set is not skipped, no operator input is read for it, the
\* matching member is the one announced as kept and, once cleanUp is past
\* the set, every other member has been passed to os.Remove.
C7_SolePreferredAutomatic ==
    \A k \in Sets :
        (fix /\ Cardinality(Preferred(k)) = 1) =>
            /\ prompts[k] = 0
            /\ returned[k] = <<>>
            /\ Kept(k) \subseteq Preferred(k)
            /\ (idx > k => Resolved(k))
            /\ Resolved(k) => Removed(k) = Members(k) \ Preferred(k)

C7_Witness ==
    \E k \in Sets :
        /\ fix /\ skipManual
        /\ Cardinality(Preferred(k)) = 1
        /\ Resolved(k)
        /\ Cardinality(Removed(k)) = 2

\* C8: in fix mode with skip-manual, a set that has been presented and in
\* which no member matches the prefer pattern (or there is no pattern) is
\* reported skipped: nothing is removed, no input is read, and cleanUp is
\* already past it.
C8_SkipManualSkips ==
    \A k \in Sets :
        (fix /\ skipManual /\ listed[k] # <<>> /\ Preferred(k) = {}) =>
            /\ removeCalls[k] = <<>>
            /\ announced[k] = <<>>
            /\ prompts[k] = 0
            /\ report[k] = <<"Preferred file not found, deletion skipped.">>
            /\ idx > k
            /\ pc \in {"cleanUp", "line535", "readInt", "line539", "remove", "exit"}

C8_Witness ==
    /\ fix /\ skipManual /\ ~preferRegexp.nil
    /\ Len(sameHashFiles) = 2
    /\ listed[1] # <<>> /\ Preferred(1) = {}
    /\ Resolved(2)

\* C9: in list mode no file is removed, no input is read, no decision is
\* computed, and at the end every set has been printed as it is.
C9_ListModeRemovesNothing ==
    ~fix =>
        /\ exists = Paths
        /\ \A k \in Sets :
              /\ removeCalls[k] = <<>>
              /\ prompts[k] = 0
              /\ announced[k] = <<>>
              /\ report[k] = <<>>
        /\ keep = 0
        /\ pc \in {"main328", "listAll", "exit"}
        /\ pc = "exit" => \A k \in Sets : listed[k] = sameHashFiles[k]

C9_Witness ==
    /\ ~fix
    /\ pc = "exit"
    /\ Len(sameHashFiles) = 2
    /\ \A k \in Sets : listed[k] = sameHashFiles[k]

InFlight == {p \in Paths : wpc[p] \in {"line416", "line423", "line431", "line453"}}

\* C2 (as claimed): a failure to open or read one file does not abort the
\* run.
C2_IoFailureDoesNotAbort ==
    ioFailed # {} => Running

\* C3 (as claimed): with a positive fsLimit at most fsLimit hashWorker
\* units are in flight.
C3_AtMostLimitInFlight ==
    fsLimit > 0 => Cardinality(InFlight) <= fsLimit

\* C4: no hashWorker deposits two results, and when getUniqueHashes has
\* returned (line 394) getHashResults has received len(files) results, one
\* from each worker of the bucket, none of which is still before its send.
C4_ReturnsAfterAllDeposited ==
    /\ \A p \in Paths : sent[p] <= 1
    /\ pc = "line394" =>
          /\ received = Len(Files)
          /\ \A p \in Range(Files) : sent[p] = 1 /\ p \notin InFlight

C4_Witness ==
    /\ pc = "line394"
    /\ Len(Files) = 3
    /\ fsLimit = 0
    /\ \E p \in Range(Files) : wpc[p] = "line417"

\* C11: files of distinct sizes are never in one duplicate set: every set
\* filterSameHashFiles has put out consists of paths of one single size
\* bucket, whatever the buckets, the contents and the completion order.
C11_SetWithinOneBucket ==
    \A k \in DOMAIN sameHashFiles :
        /\ sameHashFiles[k] # <<>>
        /\ \A p, q \in Range(sameHashFiles[k]) :
              /\ BucketOf(p) = BucketOf(q)
              /\ fsize[p] = fsize[q]

\* two buckets gave a set each, and the sets have the same first kilobyte
C11_Witness ==
    /\ pc = "main328"
    /\ Len(sameHashFiles) = 2
    /\ \E p \in Range(sameHashFiles[1]), q \in Range(sameHashFiles[2]) :
          head[p] = head[q] /\ BucketOf(p) # BucketOf(q)

\* C12: the grouping by digest does not depend on any order: when
\* getUniqueHashes returns, the paths under a digest are, as a set, the
\* files of the bucket with that digest, each once, whatever the order of
\* the list handed in and the order the results were received in.
C12_GroupsOrderIndependent ==
    pc = "line394" =>
        \A d \in Contents :
            /\ Range(uniqueHashes[d]) = {p \in Range(Files) : head[p] = d}
            /\ NoRepeat(uniqueHashes[d])

\* a list that is not ascending, whose results arrived in a third order
C12_Witness ==
    /\ pc = "line394"
    /\ \E d \in Contents, a, b \in DOMAIN Files :
          /\ a < b /\ Files[a] > Files[b]
          /\ Len(uniqueHashes[d]) > 1
          /\ uniqueHashes[d][1] > uniqueHashes[d][2]
          /\ uniqueHashes[d] # SubSeq(Files, 1, Len(uniqueHashes[d]))

\* what a line names when each of its tokens is an index or a range within
\* 1..max
WellFormed(tok, max) ==
    /\ tok.kind \in {"index", "range"}
    /\ tok.a \in 1..max
    /\ tok.b \in tok.a..max
Named(s) == UNION {s[k].a..s[k].b : k \in DOMAIN s}
Ascending(ints) == \A a, b \in DOMAIN ints : a < b => ints[a] < ints[b]

\* C13: for a line made only of well-formed tokens (indices and ranges a-b
\* with 1 <= a <= b <= max) parseRead returns ok and, as the keep list, the
\* union of the named indices, strictly ascending, whatever the order and
\* the overlap of the tokens.
C13_ParseReadUnion ==
    (/\ ppc = "parsed"
     /\ line # <<>>
     /\ \A k \in DOMAIN line : WellFormed(line[k], lineMax)) =>
        /\ got.ok
        /\ Range(got.keep) = Named(line)
        /\ Ascending(got.keep)

\* a range followed by a lower range that overlaps it
C13_Witness ==
    /\ ppc = "parsed"
    /\ got.ok
    /\ Len(line) = 2
    /\ line[1].kind = "range" /\ line[2].kind = "range"
    /\ line[2].a < line[1].a
    /\ line[1].a < line[1].b
    /\ line[2].b >= line[1].a
    /\ Len(got.keep) = 3

\* C14 (as claimed): a line with a token that is no number, is below 1, is
\* above the member count or is an inverted range is rejected as a whole:
\* readInt accepts no index from it, it prompts again.
C14_BadLineRejected ==
    (/\ ppc = "scanned"
     /\ \E k \in DOMAIN line : ~WellFormed(line[k], lineMax)) =>
        ~(turn.returns /\ turn.i >= 1)

\* the os.Remove calls of the k-th set that failed
Failed(k) == {n \in DOMAIN removeCalls[k] : removeCalls[k][n] \in exists}
Outcomes(k) == SelectSeq(report[k], LAMBDA r : r \in {"done.", "error"})

\* C15: a failed os.Remove is not fatal: the error is reported for that
\* path, the other paths of the set are still passed to os.Remove and the
\* sets after it are still processed.
C15_RemoveErrorNotFatal ==
    /\ pc # "fatal"
    /\ \A k \in Sets :
          /\ Len(Outcomes(k)) = Len(removeCalls[k])
          /\ \A n \in DOMAIN removeCalls[k] :
                n \in Failed(k) <=> Outcomes(k)[n] = "error"
          /\ (idx > k /\ announced[k] # <<>>) =>
                /\ Len(removeCalls[k]) = Len(listed[k]) - 1
                /\ Resolved(k)
    /\ (fix /\ pc = "exit") => \A k \in Sets : listed[k] # <<>>

\* the removal of the first set failed, and the second set was resolved
\* after it with a removal that succeeded
C15_Witness ==
    /\ Len(sameHashFiles) = 2
    /\ Failed(1) # {}
    /\ Resolved(1)
    /\ Resolved(2)
    /\ removeCalls[2] # <<>>
    /\ Failed(2) = {}

\* C16 (as claimed): an error of the directory walk (a directory that
\* cannot be read, an entry or a root that cannot be stat'ed) aborts the
\* scan: main never comes to the size filter or to the hashing with the
\* mapping built so far, and when it returns it has been given the error.
C16_WalkErrorAborts ==
    walkFaults # {} =>
        /\ pc \notin {"line312", "line320"}
        /\ pc = "exit" => walkErr

\* C17 (as claimed): in every size bucket the scanner returns the paths are
\* pairwise distinct and ascending in the byte-wise order of the full paths.
C17_BucketsAscending ==
    \A size \in DOMAIN filesizes :
        \A a, b \in DOMAIN filesizes[size] :
            a < b => LexLess(filesizes[size][a], filesizes[size][b])

\* filterSameSizeFiles has returned to main
Filtered == pc = "line320" \/ (pc = "exit" /\ ~walkErr)

\* C20: filterSameSizeFiles keeps exactly the buckets of 2 or more paths,
\* their lists unchanged, and counts the paths it keeps; no bucket of one
\* path goes on to the hashing, and with a count of 0 main stops before it.
C20_KeepsBucketsOfTwoOrMore ==
    Filtered =>
        /\ \A size \in Sizes :
              /\ Len(filesizes[size]) >= 2 => sameSizeMap[size] = filesizes[size]
              /\ Len(filesizes[size]) < 2 => sameSizeMap[size] = <<>>
        /\ sizeCount = SumTo([k \in 1..(MaxSize + 1) |-> Len(sameSizeMap[k - 1])],
                             MaxSize + 1)
        /\ pc = "line320" <=> sizeCount > 0

\* a bucket of two paths was kept and a bucket of one path was dropped
C20_Witness ==
    /\ pc = "line320"
    /\ \E a, b \in Sizes :
          /\ Len(filesizes[a]) = 1 /\ sameSizeMap[a] = <<>>
          /\ Len(filesizes[b]) = 2 /\ sameSizeMap[b] = filesizes[b]

\* two paths are under one digest in the map getUniqueHashes returns
SameGroup(p, q) ==
    \E d \in DOMAIN uniqueHashes : {p, q} \subseteq Range(uniqueHashes[d])

\* C18: two files of one size are in one fingerprint group exactly when
\* their first 1024 bytes are equal, whatever follows them: files that
\* differ only after the first 1024 bytes come out as duplicates.
C18_GroupedByFirstKilobyte ==
    /\ pc = "line394" =>
          \A p, q \in Range(Files) : SameGroup(p, q) <=> head[p] = head[q]
    /\ \A k \in DOMAIN sameHashFiles :
          \A p, q \in Range(sameHashFiles[k]) : head[p] = head[q]

\* two files that differ after their first 1024 bytes are in one set
C18_Witness ==
    /\ pc = "main328"
    /\ \E k \in DOMAIN sameHashFiles :
          \E p, q \in Range(sameHashFiles[k]) :
              /\ fsize[p] > SampleSize
              /\ tail[p] # tail[q]

\* C19 (as claimed): files smaller than the sample, from 0 bytes on, are
\* fingerprinted over their whole content: no error and no abort, and two
\* of them are in one group exactly when their contents are equal.
C19_ShortFilesFingerprinted ==
    (\A p \in InBuckets(sameSizeFiles) : fsize[p] < SampleSize) =>
        /\ pc # "fatal"
        /\ ioFailed = {}
        /\ pc = "line394" =>
              \A p, q \in Range(Files) : SameGroup(p, q) <=> head[p] = head[q]

\* filterSameHashFiles has returned to main
Hashed == pc \in {"line321", "main328", "exit"}

\* the files of one bucket that have one first kilobyte, where they are 2
\* or more
DuplicateGroups ==
    {g \in {{p \in Range(sameSizeFiles[k]) : head[p] = d} :
                k \in DOMAIN sameSizeFiles, d \in Contents} :
        Cardinality(g) >= 2}

\* C21: what filterSameHashFiles returns holds exactly the fingerprint
\* groups of 2 or more members, over all buckets, each once, and no group
\* of one member; the count is the sum of the sizes of the sets, so it is
\* positive exactly when there is a duplicate set.
C21_ExactlyGroupsOfTwoOrMore ==
    Hashed =>
        /\ {Range(sameHashFiles[k]) : k \in DOMAIN sameHashFiles} = DuplicateGroups
        /\ Len(sameHashFiles) = Cardinality(DuplicateGroups)
        /\ \A k \in DOMAIN sameHashFiles : Len(sameHashFiles[k]) >= 2
        /\ count = SumTo([k \in DOMAIN sameHashFiles |-> Len(sameHashFiles[k])],
                         Len(sameHashFiles))
        /\ count > 0 <=> sameHashFiles # <<>>

\* a bucket of three gave a set of two, its third file left out
C21_Witness ==
    /\ pc = "main328"
    /\ Len(sameHashFiles) = 1
    /\ Len(sameSizeFiles[1]) = 3
    /\ Len(sameHashFiles[1]) = 2
    /\ count = 2

Grouped == UNION {Range(uniqueHashes[d]) : d \in DOMAIN uniqueHashes}

\* C23: a file whose worker reported a failure is in no fingerprint group
\* and in no duplicate set: when getUniqueHashes returns, the paths in its
\* groups are the paths of the bucket whose workers reported success, each
\* once, and the failures were received as errors.
C23_FailedNeverGrouped ==
    /\ Grouped \cap ioFailed = {}
    /\ \A k \in DOMAIN sameHashFiles : Range(sameHashFiles[k]) \cap ioFailed = {}
    /\ pc = "v2line165" =>
          /\ Grouped = Range(Files) \ ioFailed
          /\ \A d \in DOMAIN uniqueHashes : NoRepeat(uniqueHashes[d])
          /\ \A d, e \in DOMAIN uniqueHashes :
                d # e => Range(uniqueHashes[d]) \cap Range(uniqueHashes[e]) = {}
          /\ errs \cap Range(Files) = ioFailed \cap Range(Files)

\* one file of a bucket could not be read and two others are in one group
C23_Witness ==
    /\ pc = "v2line165"
    /\ errs \cap Range(Files) # {}
    /\ \E d \in DOMAIN uniqueHashes : Len(uniqueHashes[d]) = 2

\* C24 (as claimed): under fair scheduling of the launcher, the workers and
\* the collector, getUniqueHashes returns for every bucket and every
\* fsLimit: filterSameHashFiles comes to its end.
C24_EveryBucketReturns == <>(pc = "line321")

\* the workers that were launched (line 462)
Launched == {p \in Paths : wpc[p] # "idle"}

\* C25: fingerprinting is sequential across buckets: every launched worker
\* is of the bucket in hand or of an earlier one, every worker of an earlier
\* bucket has deposited its result, and so all workers in flight are of one
\* bucket.
C25_OneBucketInFlight ==
    /\ \A p \in Launched :
          /\ BucketOf(p) <= cur + 1
          /\ BucketOf(p) < cur + 1 => sent[p] = 1
    /\ \A p, q \in InFlight : BucketOf(p) = BucketOf(q)

\* a worker of the second bucket is in flight, after the first bucket gave
\* all its results
C25_Witness ==
    /\ cur = 1
    /\ \E p \in InFlight : BucketOf(p) = 2
    /\ \E q \in Launched : BucketOf(q) = 1 /\ sent[q] = 1

\* the index the operator selected for the k-th set: the last value readInt
\* returned for it (0 when it returned none)
Selected(k) ==
    IF returned[k] = <<>> THEN 0 ELSE returned[k][Len(returned[k])]

\* C26: when the operator selects an index r of 1..n for a set of n members,
\* the path announced as kept is the member displayed as [r], it is never
\* passed to os.Remove, no path is passed twice, and once cleanUp is past
\* the set exactly the other n-1 members have been passed, each once.
C26_SelectedSurvives ==
    \A k \in Sets :
        Selected(k) >= 1 =>
            LET file == listed[k][Selected(k)] IN
            /\ Selected(k) <= Len(listed[k])
            /\ announced[k] \in {<<>>, <<file>>}
            /\ NoRepeat(removeCalls[k])
            /\ file \notin Removed(k)
            /\ Removed(k) \subseteq Members(k)
            /\ idx > k =>
                  /\ announced[k] = <<file>>
                  /\ Removed(k) = Members(k) \ {file}
                  /\ Len(removeCalls[k]) = Len(listed[k]) - 1

\* the operator selected the second of three members, and the two others
\* were passed to os.Remove
C26_Witness ==
    \E k \in Sets :
        /\ Len(listed[k]) = 3
        /\ Selected(k) = 2
        /\ idx > k
        /\ removeCalls[k] = <<listed[k][1], listed[k][3]>>

\* the paths the scanner has recorded, in the order of the sizes
RECURSIVE Flatten(_, _)
Flatten(m, n) == IF n < 0 THEN <<>> ELSE Flatten(m, n - 1) \o m[n]

Recorded == Flatten(filesizes, MaxSize)

\* C27: the scanner records no symlink alias and no directory: every
\* recorded path is a regular file that resolves to itself, no two recorded
\* paths resolve to one file, and when Walk has come to its end without a
\* fault every regular file of the tree, those of its directories
\* included, is recorded.
C27_NoAliasRecorded ==
    /\ \A n \in DOMAIN Recorded :
          /\ tree[Recorded[n]] = "file"
          /\ EvalSymlinks(Recorded[n]) = Recorded[n]
          /\ \A o \in DOMAIN Recorded :
                EvalSymlinks(Recorded[o]) = EvalSymlinks(Recorded[n]) => o = n
    /\ (pc = "line312" /\ walkFaults = {}) =>
          \A q \in Slots : tree[q] = "file" => q \in Range(Recorded)

\* Walk has visited a directory, the file in it, a link and the file the
\* link points to: the two files are recorded, the link is not
C27_Witness ==
    /\ pc = "line312"
    /\ tree[PathA] = "dir" /\ tree[PathAT] = "link"
    /\ Range(Recorded) = {PathAZ, PathB}

\* the paths of a list of lists, one after the other
RECURSIVE Concat(_)
Concat(l) == IF l = <<>> THEN <<>> ELSE Head(l) \o Concat(Tail(l))

\* C28: each path appears at most once in the whole list of Duplicate Sets,
\* at every moment and for every order in which the workers complete: no
\* set holds a path twice and no path is in two sets.
C28_PathsAtMostOnce ==
    NoRepeat(Concat(sameHashFiles))

\* filterSameHashFiles has come to its end with two sets of two paths
C28_Witness ==
    /\ pc = "line321"
    /\ Len(sameHashFiles) = 2
    /\ Len(Concat(sameHashFiles)) = 4

\* C29: in fix mode, when two or more members of a set match the prefer
\* pattern, the loop over the set leaves keep at -1, and keep is -1 until
\* readInt returns; with skipManual the set is reported skipped, with no
\* prompt and no removal; without it nothing is announced or removed before
\* the operator has named an index, and then the member of that index is the
\* one kept.
C29_SeveralPreferredNoChoice ==
    \A k \in Sets :
        (fix /\ listed[k] # <<>> /\ Cardinality(Preferred(k)) >= 2) =>
            /\ PreferLoop(preferRegexp, listed[k], 0, 0) = -1
            /\ (idx = k /\ returned[k] = <<>>) => keep = -1
            /\ skipManual =>
                  /\ removeCalls[k] = <<>>
                  /\ announced[k] = <<>>
                  /\ prompts[k] = 0
                  /\ idx > k
            /\ (removeCalls[k] # <<>> \/ announced[k] # <<>>) =>
                  /\ Selected(k) >= 1
                  /\ announced[k] = <<listed[k][Selected(k)]>>
                  /\ listed[k][Selected(k)] \notin Removed(k)

\* the three members of a set all match, the operator named one, and the
\* two others were passed to os.Remove
C29_Witness ==
    \E k \in Sets :
        /\ fix /\ ~skipManual
        /\ Cardinality(Preferred(k)) = 3
        /\ Selected(k) >= 1
        /\ Resolved(k)
        /\ Cardinality(Removed(k)) = 2

====
